---- MODULE Spec2Model ----
(***************************************************************************)
(* A model of the retry package: the error classifier (errors.go), the    *)
(* delay strategies and the options (options.go), NewRetry and the attempt *)
(* loop RetryConfig.Do (retry.go), for one caller and for two goroutines   *)
(* that share a RetryConfig.                                               *)
(*                                                                         *)
(* An error value is the sequence of the errors of its Unwrap chain, the   *)
(* outermost first; the nil error is the empty sequence.  A duration is a  *)
(* signed integer of DurationBits bits counting ticks (Go: 64 bits of      *)
(* nanoseconds); arithmetic on durations wraps as Go's does.               *)
(***************************************************************************)
EXTENDS Integers, Sequences, FiniteSets, TLC

VARIABLES
    rc,         \* the RetryConfig Do runs on
    ctxDone,    \* ctx.Done() is closed
    ctxErr,     \* what ctx.Err() returns once ctx.Done() is closed
    pc,         \* where Do is: "loop", "call", "sleep", "returned", "panic"
    attempt,    \* Do's loop variable
    lastErr,    \* Do's lastErr
    ret,        \* what Do returned: [data, err]
    opHist,     \* the results retryFunc has returned so far, in order
    calls,      \* how many times retryFunc has been invoked
    delayArgs,  \* the arguments of every rc.delayType call, in order
    delay,      \* Do's delay: the duration of the time.Sleep in progress
    slept,      \* the durations of the completed time.Sleep calls, in order
    log,        \* the rc.logger.Printf calls, in order
    doneAt,     \* where Do was when ctx.Done() was closed: [pc, attempt]
    cerr,       \* classifier harness: the error under classification
    corig,      \* classifier harness: the error NonRetryable was given, or Nil
    cout,       \* classifier harness: the results of isRetryable (none or one)
    dIn,        \* delay harness: [strategy, attempt, baseDelay, maxDelay]
    dOut,       \* delay harness: the outcomes of the strategy (none or one)
    opts,       \* NewRetry: the options it was given, in order
    applied,    \* NewRetry: how many of them have been applied
    cur,        \* concurrent callers: the goroutine whose Do is in the Do variables
    others      \* concurrent callers: the locals of the Do of every other goroutine

vars == <<rc, ctxDone, ctxErr, pc, attempt, lastErr, ret, opHist, calls,
          delayArgs, delay, slept, log, doneAt, cerr, corig, cout, dIn, dOut,
          opts, applied, cur, others>>

doVars == <<rc, ctxDone, ctxErr, pc, attempt, lastErr, ret, opHist, calls,
            delayArgs, delay, slept, log, doneAt>>
classVars == <<cerr, corig, cout>>
delayVars == <<dIn, dOut>>
cfgVars == <<opts, applied>>
concVars == <<cur, others>>

-----------------------------------------------------------------------------
(* Bounds of the model *)

\* the longest Unwrap chain of an error given to the classifier
MaxChainLen == 3
\* the width of a duration in bits (Go: 64)
DurationBits == 6
\* the largest attempt index given to a delay strategy on its own
MaxAttemptIndex == 7
\* the largest attempts value of a RetryConfig
MaxAttempts == 3
\* the largest number of options given to NewRetry
MaxOptions == 2

-----------------------------------------------------------------------------
(* Errors *)

Nil == << >>

\* errors.New(text): a *errorString; id tells the allocations apart
ErrorsNew(id, text) == [type |-> "errorString", id |-> id, msg |-> <<text>>]

errNonRetryable == ErrorsNew(0, "non-retryable error")

\* the test's timeoutError: a net.Error whose Timeout() is true
TimeoutError(id) == [type |-> "timeoutError", id |-> id, msg |-> <<"timeout error">>]

\* a net.Error whose Timeout() is false
TemporaryError(id) == [type |-> "temporaryError", id |-> id, msg |-> <<"temporary error">>]

\* the type has the methods of net.Error: Error, Timeout and Temporary
ImplementsNetError(e) == e.type \in {"timeoutError", "temporaryError", "deadlineExceededError"}

\* e.Timeout() of an error that has the method
Timeout(e) == e.type \in {"timeoutError", "deadlineExceededError"}

\* err.Error(): the text of the outermost error
ErrorText(err) == IF err = Nil THEN <<"%!v(<nil>)">> ELSE Head(err).msg

\* errors.Unwrap
Unwrap(err) == Tail(err)

\* errors.Is(err, target): walks the chain, comparing each error to target
RECURSIVE errorsIs(_, _)
errorsIs(err, target) ==
    IF err = Nil THEN FALSE
    ELSE IF Head(err) = target THEN TRUE
    ELSE errorsIs(Unwrap(err), target)

\* errors.As(err, &netErr): walks the chain and stops at the first error that
\* implements net.Error; the error found (with what it wraps), or Nil
RECURSIVE errorsAsNetError(_)
errorsAsNetError(err) ==
    IF err = Nil THEN Nil
    ELSE IF ImplementsNetError(Head(err)) THEN err
    ELSE errorsAsNetError(Unwrap(err))

\* fmt.Errorf(prefix + "%w", err): a *wrapError whose Unwrap is err; when err
\* is nil the verb has no error to wrap, and the result is a *errorString
\* that wraps nothing
ErrorfW(prefix, err) ==
    IF err = Nil
    THEN <<[type |-> "errorString", id |-> 0, msg |-> <<prefix, "%!w(<nil>)">>]>>
    ELSE <<[type |-> "wrapError", id |-> 0, msg |-> <<prefix>> \o ErrorText(err)]>> \o err

\* fmt.Errorf("%w: %v", errNonRetryable, err): a *wrapError whose Unwrap is
\* errNonRetryable; err is formatted with %v, so only its text is kept
NonRetryable(err) ==
    <<[type |-> "wrapError", id |-> 0,
       msg |-> errNonRetryable.msg \o <<": ">> \o ErrorText(err)],
      errNonRetryable>>

\* a variant of isRetryable: the marker is looked for first, so that a
\* marked error is never retryable
isRetryableMarkerFirst(err) ==
    IF errorsIs(err, errNonRetryable) THEN FALSE ELSE TRUE

\* a net.Error that reports a timeout is retryable; else an error marked
\* with errNonRetryable is not; else the error is retryable
isRetryable(err) ==
    LET netErr == errorsAsNetError(err)
    IN  IF netErr /= Nil /\ Timeout(Head(netErr)) THEN TRUE
        ELSE ~errorsIs(err, errNonRetryable)

-----------------------------------------------------------------------------
(* The classifier on its own: isRetryable and NonRetryable applied to every *)
(* error chain of at most MaxChainLen errors.                               *)

\* the errors a caller can put anywhere in a chain
WrappingErrors == {ErrorsNew(1, "some error"), TimeoutError(2), TemporaryError(3)}

\* errNonRetryable is a *errorString: it wraps nothing, so it ends its chain
RECURSIVE ChainsOfLen(_)
ChainsOfLen(n) ==
    IF n = 1 THEN {<<e>> : e \in WrappingErrors \cup {errNonRetryable}}
    ELSE {<<e>> \o c : e \in WrappingErrors, c \in ChainsOfLen(n - 1)}

ErrorChains == UNION {ChainsOfLen(n) : n \in 1..MaxChainLen}

ClassInit ==
    /\ cerr \in ErrorChains
    /\ corig = Nil
    /\ cout = << >>

ClassIdle ==
    /\ cerr = Nil
    /\ corig = Nil
    /\ cout = << >>

\* err = NonRetryable(err)
MarkNonRetryable ==
    /\ corig = Nil
    /\ cout = << >>
    /\ corig' = cerr
    /\ cerr' = NonRetryable(cerr)
    /\ cout' = cout

\* isRetryable(err)
Classify ==
    /\ cerr /= Nil
    /\ cout = << >>
    /\ cout' = <<isRetryable(cerr)>>
    /\ UNCHANGED <<cerr, corig>>

-----------------------------------------------------------------------------
(* Durations: time.Duration, a signed integer of DurationBits bits *)

DurationModulus == 2 ^ DurationBits

MaxDuration == (2 ^ (DurationBits - 1)) - 1

\* the value an integer result has in a signed integer of DurationBits bits
Wrap(x) ==
    LET m == x % DurationModulus
    IN  IF m > MaxDuration THEN m - DurationModulus ELSE m

\* time.Duration(1 << attempt): a shift by the width or more gives 0
ShiftLeftOne(n) == IF n >= DurationBits THEN 0 ELSE Wrap(2 ^ n)

\* a / b of Go, which truncates toward zero (b > 0)
Quo(a, b) == IF a >= 0 THEN a \div b ELSE -((-a) \div b)

\* what a call of a delay strategy comes to: a duration, or a panic
Returns(d) == [panic |-> FALSE, d |-> d]
Panics == [panic |-> TRUE, d |-> 0]

\* rand.Int63n(n): panics when n <= 0, else returns any of 0..n-1
Int63n(n) == IF n <= 0 THEN {Panics} ELSE {Returns(j) : j \in 0..(n - 1)}

\* a variant of FixedDelay: the delay is capped at maxDelay
FixedDelayCapped(attemptIndex, baseDelay, maxDelay) ==
    {Returns(IF baseDelay > maxDelay THEN maxDelay ELSE baseDelay)}

\* the function FixedDelay() returns
FixedDelay(attemptIndex, baseDelay, maxDelay) == {Returns(baseDelay)}

\* a variant of ExpBackoffWithJitter: the jitter is any of 0..expBackoff/5,
\* the upper end included
ExpBackoffWithJitterInclusive(attemptIndex, baseDelay, maxDelay) ==
    LET expBackoff == Wrap(baseDelay * ShiftLeftOne(attemptIndex))
        Final(jitter) ==
            LET finalDelay == Wrap(expBackoff + jitter)
            IN  IF finalDelay > maxDelay THEN maxDelay ELSE finalDelay
    IN  {IF j.panic THEN Panics ELSE Returns(Final(j.d)) :
            j \in Int63n(Quo(expBackoff, 5) + 1)}

\* the function ExpBackoffWithJitter() returns: every outcome it can have
ExpBackoffWithJitter(attemptIndex, baseDelay, maxDelay) ==
    LET expBackoff == Wrap(baseDelay * ShiftLeftOne(attemptIndex))
        Final(jitter) ==
            LET finalDelay == Wrap(expBackoff + jitter)
            IN  IF finalDelay > maxDelay THEN maxDelay ELSE finalDelay
    IN  {IF j.panic THEN Panics ELSE Returns(Final(j.d)) : j \in Int63n(Quo(expBackoff, 5))}

DelayTypes == {"FixedDelay", "ExpBackoffWithJitter"}

\* a call of a DelayTypeFunc value
CallDelayType(delayType, attemptIndex, baseDelay, maxDelay) ==
    IF delayType = "FixedDelay"
    THEN FixedDelay(attemptIndex, baseDelay, maxDelay)
    ELSE ExpBackoffWithJitter(attemptIndex, baseDelay, maxDelay)

-----------------------------------------------------------------------------
(* The delay strategies on their own: each applied to every attempt index  *)
(* up to MaxAttemptIndex and every pair of durations that are not negative. *)

DelayInit ==
    /\ dIn \in [strategy : DelayTypes, attempt : 0..MaxAttemptIndex,
                 baseDelay : 0..MaxDuration, maxDelay : 0..MaxDuration]
    /\ dOut = << >>

DelayIdle ==
    /\ dIn = [strategy |-> "FixedDelay", attempt |-> 0, baseDelay |-> 0, maxDelay |-> 0]
    /\ dOut = << >>

\* delayFunc(attempt, baseDelay, maxDelay) with delayFunc := FixedDelay()
CallFixedDelay ==
    /\ dIn.strategy = "FixedDelay"
    /\ dOut = << >>
    /\ \E o \in FixedDelay(dIn.attempt, dIn.baseDelay, dIn.maxDelay) : dOut' = <<o>>
    /\ dIn' = dIn

\* delayFunc(attempt, baseDelay, maxDelay) with delayFunc := ExpBackoffWithJitter()
CallExpBackoffWithJitter ==
    /\ dIn.strategy = "ExpBackoffWithJitter"
    /\ dOut = << >>
    /\ \E o \in ExpBackoffWithJitter(dIn.attempt, dIn.baseDelay, dIn.maxDelay) : dOut' = <<o>>
    /\ dIn' = dIn

-----------------------------------------------------------------------------
(* RetryConfig.Do *)

\* the values WithDelay and WithMaxDelay are given
CfgBaseDelays == {0, 3, 10}
CfgMaxDelays == {3, 20}

\* the Logger values WithLogger is given, and the default
Loggers == {"nopLogger", "customLogger"}

\* every field of a RetryConfig can be set to any value by its option;
\* WithAttempts takes any int, zero and the negative ones too
Configs ==
    [attempts : (-1)..MaxAttempts, baseDelay : CfgBaseDelays, maxDelay : CfgMaxDelays,
     delayType : DelayTypes \cup {"nil"}, logger : Loggers]

\* context.Canceled and context.DeadlineExceeded
Canceled == [type |-> "errorString", id |-> 100, msg |-> <<"context canceled">>]
DeadlineExceeded ==
    [type |-> "deadlineExceededError", id |-> 101, msg |-> <<"context deadline exceeded">>]
CtxErrors == {<<Canceled>>, <<DeadlineExceeded>>}

\* what retryFunc can return at its i-th invocation: a resource and no error,
\* or no resource and an error
OpResult(data, err) == [data |-> data, err |-> err]
OpResults(i) ==
    {OpResult(i, Nil),
     OpResult(0, <<ErrorsNew(i, "some error")>>),
     OpResult(0, <<TimeoutError(i)>>),
     OpResult(0, NonRetryable(<<ErrorsNew(i, "fatal")>>))}

NotReturned == [returned |-> FALSE, data |-> 0, err |-> Nil]
Returned(data, err) == [returned |-> TRUE, data |-> data, err |-> err]

\* rc.logger.Printf(format, args...)
Printf(format, args) == Append(log, [format |-> format, args |-> args])

NeverDone == [pc |-> "never", attempt |-> 0]

DoInit ==
    /\ rc \in Configs
    /\ ctxDone \in BOOLEAN
    /\ ctxErr \in IF ctxDone THEN CtxErrors ELSE {Nil}
    /\ doneAt = IF ctxDone THEN [pc |-> "before", attempt |-> 0] ELSE NeverDone
    /\ pc = "loop"
    /\ attempt = 1
    /\ lastErr = Nil
    /\ ret = NotReturned
    /\ opHist = << >>
    /\ calls = 0
    /\ delayArgs = << >>
    /\ delay = 0
    /\ slept = << >>
    /\ log = << >>

DoIdle ==
    /\ rc = [attempts |-> 0, baseDelay |-> 0, maxDelay |-> 0, delayType |-> "nil",
             logger |-> "nopLogger"]
    /\ ctxDone = FALSE
    /\ ctxErr = Nil
    /\ doneAt = NeverDone
    /\ pc = "idle"
    /\ attempt = 0
    /\ lastErr = Nil
    /\ ret = NotReturned
    /\ opHist = << >>
    /\ calls = 0
    /\ delayArgs = << >>
    /\ delay = 0
    /\ slept = << >>
    /\ log = << >>

\* the context is cancelled, or its deadline passes, while Do runs
Cancel ==
    /\ pc \in {"loop", "call", "sleep"}
    /\ ~ctxDone
    /\ ctxDone' = TRUE
    /\ ctxErr' \in CtxErrors
    /\ doneAt' = [pc |-> pc, attempt |-> attempt]
    /\ UNCHANGED <<rc, pc, attempt, lastErr, ret, opHist, calls, delayArgs, delay,
                   slept, log>>

\* the loop condition
LoopCond == attempt <= rc.attempts

\* a variant of SelectCtxDone: the context is looked at before the first attempt only
SelectCtxDoneFirstOnly == ctxDone /\ attempt = 1

\* a variant of SelectCtxDone: the context is not looked at before the first attempt
SelectCtxDoneSkipFirst == ctxDone /\ attempt > 1

\* select: the case <-ctx.Done() is taken when the channel is closed, else default
SelectCtxDone == ctxDone

\* a variant of Exhausted: the context is looked at once more after the loop
ExhaustedChecksCtx ==
    /\ pc = "loop"
    /\ ~LoopCond
    /\ IF ctxDone
       THEN /\ log' = Printf("Retry cancelled by context on attempt %d: %v",
                             <<attempt, ctxErr>>)
            /\ ret' = Returned(0, ctxErr)
       ELSE /\ log' = Printf("All %d attempts failed. Last error: %v",
                             <<rc.attempts, lastErr>>)
            /\ ret' = Returned(0, ErrorfW("all attempts failed, the last error: ", lastErr))
    /\ pc' = "returned"
    /\ UNCHANGED <<rc, ctxDone, ctxErr, doneAt, attempt, lastErr, opHist, calls,
                   delayArgs, delay, slept>>

\* the loop is over: every attempt failed
Exhausted ==
    /\ pc = "loop"
    /\ ~LoopCond
    /\ log' = Printf("All %d attempts failed. Last error: %v", <<rc.attempts, lastErr>>)
    /\ ret' = Returned(0, ErrorfW("all attempts failed, the last error: ", lastErr))
    /\ pc' = "returned"
    /\ UNCHANGED <<rc, ctxDone, ctxErr, doneAt, attempt, lastErr, opHist, calls,
                   delayArgs, delay, slept>>

\* case <-ctx.Done()
Cancelled ==
    /\ pc = "loop"
    /\ LoopCond
    /\ SelectCtxDone
    /\ log' = Printf("Retry cancelled by context on attempt %d: %v", <<attempt, ctxErr>>)
    /\ ret' = Returned(0, ctxErr)
    /\ pc' = "returned"
    /\ UNCHANGED <<rc, ctxDone, ctxErr, doneAt, attempt, lastErr, opHist, calls,
                   delayArgs, delay, slept>>

\* default: retryFunc is called
Invoke ==
    /\ pc = "loop"
    /\ LoopCond
    /\ ~SelectCtxDone
    /\ calls' = calls + 1
    /\ pc' = "call"
    /\ UNCHANGED <<rc, ctxDone, ctxErr, doneAt, attempt, lastErr, ret, opHist,
                   delayArgs, delay, slept, log>>

\* a variant of Succeeded: the result is not returned and the loop goes on
SucceededNoReturn(r) ==
    /\ pc = "call"
    /\ r.err = Nil
    /\ opHist' = Append(opHist, r)
    /\ attempt' = attempt + 1
    /\ pc' = "loop"
    /\ UNCHANGED <<rc, ctxDone, ctxErr, doneAt, lastErr, ret, calls, delayArgs,
                   delay, slept, log>>

\* retryFunc returns no error
Succeeded(r) ==
    /\ pc = "call"
    /\ r.err = Nil
    /\ opHist' = Append(opHist, r)
    /\ ret' = Returned(r.data, Nil)
    /\ pc' = "returned"
    /\ UNCHANGED <<rc, ctxDone, ctxErr, doneAt, attempt, lastErr, calls, delayArgs,
                   delay, slept, log>>

\* a variant of NonRetryableFailed: at the last attempt the error is kept as
\* lastErr and the loop ends, as for a retryable error
NonRetryableFailedUnlessLast(r) ==
    /\ pc = "call"
    /\ r.err /= Nil
    /\ ~isRetryable(r.err)
    /\ opHist' = Append(opHist, r)
    /\ IF attempt = rc.attempts
       THEN /\ lastErr' = r.err
            /\ attempt' = attempt + 1
            /\ pc' = "loop"
            /\ UNCHANGED <<ret, log>>
       ELSE /\ log' = Printf("Non-retryable error on attempt %d: %v", <<attempt, r.err>>)
            /\ ret' = Returned(0, ErrorfW("non-retryable error: ", r.err))
            /\ pc' = "returned"
            /\ UNCHANGED <<attempt, lastErr>>
    /\ UNCHANGED <<rc, ctxDone, ctxErr, doneAt, calls, delayArgs, delay, slept>>

\* retryFunc returns an error that is not retryable
NonRetryableFailed(r) ==
    /\ pc = "call"
    /\ r.err /= Nil
    /\ ~isRetryable(r.err)
    /\ opHist' = Append(opHist, r)
    /\ log' = Printf("Non-retryable error on attempt %d: %v", <<attempt, r.err>>)
    /\ ret' = Returned(0, ErrorfW("non-retryable error: ", r.err))
    /\ pc' = "returned"
    /\ UNCHANGED <<rc, ctxDone, ctxErr, doneAt, attempt, lastErr, calls, delayArgs,
                   delay, slept>>

\* a variant of RetryAfterDelay: rc.delayType is given a 0-based attempt number
RetryAfterDelayZeroBased(r) ==
    /\ pc = "call"
    /\ r.err /= Nil
    /\ isRetryable(r.err)
    /\ attempt /= rc.attempts
    /\ opHist' = Append(opHist, r)
    /\ \/ /\ rc.delayType = "nil"
          /\ delay' = rc.baseDelay
          /\ delayArgs' = delayArgs
       \/ /\ rc.delayType /= "nil"
          /\ delayArgs' = Append(delayArgs, <<attempt - 1, rc.baseDelay, rc.maxDelay>>)
          /\ \E o \in CallDelayType(rc.delayType, attempt - 1, rc.baseDelay, rc.maxDelay) :
                /\ ~o.panic
                /\ delay' = o.d
    /\ log' = Printf("Attempt %d failed: %v. Retrying in %v...", <<attempt, r.err, delay'>>)
    /\ pc' = "sleep"
    /\ UNCHANGED <<rc, ctxDone, ctxErr, doneAt, attempt, lastErr, ret, calls, slept>>

\* retryFunc returns a retryable error and this is not the last attempt:
\* the delay is computed and logged, and the sleep starts
RetryAfterDelay(r) ==
    /\ pc = "call"
    /\ r.err /= Nil
    /\ isRetryable(r.err)
    /\ attempt /= rc.attempts
    /\ opHist' = Append(opHist, r)
    /\ \/ /\ rc.delayType = "nil"
          /\ delay' = rc.baseDelay
          /\ delayArgs' = delayArgs
       \/ /\ rc.delayType /= "nil"
          /\ delayArgs' = Append(delayArgs, <<attempt, rc.baseDelay, rc.maxDelay>>)
          /\ \E o \in CallDelayType(rc.delayType, attempt, rc.baseDelay, rc.maxDelay) :
                /\ ~o.panic
                /\ delay' = o.d
    /\ log' = Printf("Attempt %d failed: %v. Retrying in %v...", <<attempt, r.err, delay'>>)
    /\ pc' = "sleep"
    /\ UNCHANGED <<rc, ctxDone, ctxErr, doneAt, attempt, lastErr, ret, calls, slept>>

\* retryFunc returns a retryable error, this is not the last attempt, and
\* the call of rc.delayType panics
DelayTypePanics(r) ==
    /\ pc = "call"
    /\ r.err /= Nil
    /\ isRetryable(r.err)
    /\ attempt /= rc.attempts
    /\ rc.delayType /= "nil"
    /\ Panics \in CallDelayType(rc.delayType, attempt, rc.baseDelay, rc.maxDelay)
    /\ opHist' = Append(opHist, r)
    /\ delayArgs' = Append(delayArgs, <<attempt, rc.baseDelay, rc.maxDelay>>)
    /\ pc' = "panic"
    /\ UNCHANGED <<rc, ctxDone, ctxErr, doneAt, attempt, lastErr, ret, calls, delay,
                   slept, log>>

\* retryFunc returns a retryable error at the last attempt
LastAttemptFailed(r) ==
    /\ pc = "call"
    /\ r.err /= Nil
    /\ isRetryable(r.err)
    /\ attempt = rc.attempts
    /\ opHist' = Append(opHist, r)
    /\ lastErr' = r.err
    /\ attempt' = attempt + 1
    /\ pc' = "loop"
    /\ UNCHANGED <<rc, ctxDone, ctxErr, doneAt, ret, calls, delayArgs, delay, slept,
                   log>>

\* a variant of SleepReturns: the attempts left are counted down in rc
SleepReturnsCountsDownInConfig ==
    /\ pc = "sleep"
    /\ slept' = Append(slept, delay)
    /\ rc' = [rc EXCEPT !.attempts = rc.attempts - 1]
    /\ pc' = "loop"
    /\ UNCHANGED <<attempt, ctxDone, ctxErr, doneAt, lastErr, ret, opHist, calls,
                   delayArgs, delay, log>>

\* time.Sleep(delay) returns, and the loop goes on to the next attempt
SleepReturns ==
    /\ pc = "sleep"
    /\ slept' = Append(slept, delay)
    /\ attempt' = attempt + 1
    /\ pc' = "loop"
    /\ UNCHANGED <<rc, ctxDone, ctxErr, doneAt, lastErr, ret, opHist, calls,
                   delayArgs, delay, log>>

-----------------------------------------------------------------------------
(* NewRetry and the options *)

\* time.Millisecond and time.Second, in nanoseconds
Millisecond == 1000000
Second == 1000 * Millisecond

\* the function WithAttempts(attempts) returns, applied to r
WithAttempts(r, attempts) == [r EXCEPT !.attempts = attempts]

\* the function WithDelay(delay) returns, applied to r
WithDelay(r, baseDelay) == [r EXCEPT !.baseDelay = baseDelay]

\* a variant of WithMaxDelay: it sets the base delay
WithMaxDelaySetsBaseDelay(r, maxDelay) == [r EXCEPT !.baseDelay = maxDelay]

\* the function WithMaxDelay(maxDelay) returns, applied to r
WithMaxDelay(r, maxDelay) == [r EXCEPT !.maxDelay = maxDelay]

\* the function WithDelayType(delayType) returns, applied to r
WithDelayType(r, delayType) == [r EXCEPT !.delayType = delayType]

\* the function WithLogger(logger) returns, applied to r
WithLogger(r, logger) == [r EXCEPT !.logger = logger]

\* an Option value: which With... call made it, and its argument (a number
\* or a name)
OptInt(name, n) == [opt |-> name, int |-> n, str |-> ""]
OptStr(name, t) == [opt |-> name, int |-> 0, str |-> t]

Options ==
    {OptInt("WithAttempts", n) : n \in (-1)..MaxAttempts}
    \cup {OptInt("WithDelay", d) : d \in CfgBaseDelays}
    \cup {OptInt("WithMaxDelay", d) : d \in CfgMaxDelays}
    \cup {OptStr("WithDelayType", t) : t \in DelayTypes \cup {"nil"}}
    \cup {OptStr("WithLogger", l) : l \in Loggers}

\* opt(retry)
ApplyOption(o, r) ==
    CASE o.opt = "WithAttempts" -> WithAttempts(r, o.int)
      [] o.opt = "WithDelay" -> WithDelay(r, o.int)
      [] o.opt = "WithMaxDelay" -> WithMaxDelay(r, o.int)
      [] o.opt = "WithDelayType" -> WithDelayType(r, o.str)
      [] o.opt = "WithLogger" -> WithLogger(r, o.str)

OptionLists == UNION {[1..n -> Options] : n \in 0..MaxOptions}

\* the RetryConfig NewRetry starts from
NewRetryDefaults ==
    [attempts |-> 3, baseDelay |-> 100 * Millisecond, maxDelay |-> 1 * Second,
     delayType |-> "FixedDelay", logger |-> "nopLogger"]

\* NewRetry(opts...) is entered: retry holds the defaults
ConfigInit ==
    /\ opts \in OptionLists
    /\ applied = 0
    /\ rc = NewRetryDefaults
    /\ pc = "NewRetry"
    /\ ctxDone = FALSE
    /\ ctxErr = Nil
    /\ doneAt = NeverDone
    /\ attempt = 0
    /\ lastErr = Nil
    /\ ret = NotReturned
    /\ opHist = << >>
    /\ calls = 0
    /\ delayArgs = << >>
    /\ delay = 0
    /\ slept = << >>
    /\ log = << >>

CfgIdle ==
    /\ opts = << >>
    /\ applied = 0

\* one iteration of: for _, opt := range opts { opt(retry) }
ApplyNextOption ==
    /\ pc = "NewRetry"
    /\ applied < Len(opts)
    /\ rc' = ApplyOption(opts[applied + 1], rc)
    /\ applied' = applied + 1
    /\ UNCHANGED <<opts, ctxDone, ctxErr, pc, attempt, lastErr, ret, opHist, calls,
                   delayArgs, delay, slept, log, doneAt>>

\* return retry
NewRetryReturns ==
    /\ pc = "NewRetry"
    /\ applied = Len(opts)
    /\ pc' = "built"
    /\ UNCHANGED <<opts, applied, rc, ctxDone, ctxErr, attempt, lastErr, ret, opHist,
                   calls, delayArgs, delay, slept, log, doneAt>>

-----------------------------------------------------------------------------
(* Several goroutines call Do on one RetryConfig *)

\* the goroutines that call rc.Do, each with its own ctx and retryFunc
Procs == {1, 2}

\* the RetryConfigs they share
ConcConfigs ==
    {c \in Configs : /\ c.attempts \in {1, 2}
                     /\ c.maxDelay = 20
                     /\ c.delayType \in DelayTypes
                     /\ c.logger = "customLogger"}

\* what belongs to one call of Do: its arguments, its local variables and
\* what it has done
Regs ==
    [ctxDone |-> ctxDone, ctxErr |-> ctxErr, doneAt |-> doneAt, pc |-> pc,
     attempt |-> attempt, lastErr |-> lastErr, ret |-> ret, opHist |-> opHist,
     calls |-> calls, delayArgs |-> delayArgs, delay |-> delay, slept |-> slept]

\* a call of Do at its entry
StartRegs ==
    [ctxDone |-> FALSE, ctxErr |-> Nil, doneAt |-> NeverDone, pc |-> "loop",
     attempt |-> 1, lastErr |-> Nil, ret |-> NotReturned, opHist |-> << >>,
     calls |-> 0, delayArgs |-> << >>, delay |-> 0, slept |-> << >>]

\* the place in others of the goroutine that is in the Do variables
Parked == [StartRegs EXCEPT !.pc = "running"]

ConcInit ==
    /\ rc \in ConcConfigs
    /\ cur = 1
    /\ others = [p \in Procs |-> IF p = 1 THEN Parked ELSE StartRegs]
    /\ ctxDone = StartRegs.ctxDone
    /\ ctxErr = StartRegs.ctxErr
    /\ doneAt = StartRegs.doneAt
    /\ pc = StartRegs.pc
    /\ attempt = StartRegs.attempt
    /\ lastErr = StartRegs.lastErr
    /\ ret = StartRegs.ret
    /\ opHist = StartRegs.opHist
    /\ calls = StartRegs.calls
    /\ delayArgs = StartRegs.delayArgs
    /\ delay = StartRegs.delay
    /\ slept = StartRegs.slept
    /\ log = << >>

ConcIdle ==
    /\ cur = 0
    /\ others = << >>

\* the scheduler: the next step is the step of another goroutine; rc and
\* the logger are shared, everything else is the goroutine's own
Switch ==
    \E p \in Procs \ {cur} :
        /\ cur' = p
        /\ others' = [others EXCEPT ![cur] = Regs, ![p] = Parked]
        /\ ctxDone' = others[p].ctxDone
        /\ ctxErr' = others[p].ctxErr
        /\ doneAt' = others[p].doneAt
        /\ pc' = others[p].pc
        /\ attempt' = others[p].attempt
        /\ lastErr' = others[p].lastErr
        /\ ret' = others[p].ret
        /\ opHist' = others[p].opHist
        /\ calls' = others[p].calls
        /\ delayArgs' = others[p].delayArgs
        /\ delay' = others[p].delay
        /\ slept' = others[p].slept
        /\ UNCHANGED <<rc, log>>

-----------------------------------------------------------------------------
(* Specifications *)

Init == DoInit /\ ClassIdle /\ DelayIdle /\ CfgIdle /\ ConcIdle

Next ==
    \/ Cancel /\ UNCHANGED <<classVars, delayVars, cfgVars, concVars>>
    \/ Exhausted /\ UNCHANGED <<classVars, delayVars, cfgVars, concVars>>
    \/ Cancelled /\ UNCHANGED <<classVars, delayVars, cfgVars, concVars>>
    \/ Invoke /\ UNCHANGED <<classVars, delayVars, cfgVars, concVars>>
    \/ \E r \in OpResults(calls) : Succeeded(r) /\ UNCHANGED <<classVars, delayVars, cfgVars, concVars>>
    \/ \E r \in OpResults(calls) : NonRetryableFailed(r) /\ UNCHANGED <<classVars, delayVars, cfgVars, concVars>>
    \/ \E r \in OpResults(calls) : RetryAfterDelay(r) /\ UNCHANGED <<classVars, delayVars, cfgVars, concVars>>
    \/ \E r \in OpResults(calls) : DelayTypePanics(r) /\ UNCHANGED <<classVars, delayVars, cfgVars, concVars>>
    \/ \E r \in OpResults(calls) : LastAttemptFailed(r) /\ UNCHANGED <<classVars, delayVars, cfgVars, concVars>>
    \/ SleepReturns /\ UNCHANGED <<classVars, delayVars, cfgVars, concVars>>

Spec == Init /\ [][Next]_vars

ClassNext ==
    \/ MarkNonRetryable /\ UNCHANGED <<doVars, delayVars, cfgVars, concVars>>
    \/ Classify /\ UNCHANGED <<doVars, delayVars, cfgVars, concVars>>

InitClassify == ClassInit /\ DoIdle /\ DelayIdle /\ CfgIdle /\ ConcIdle

SpecClassify == InitClassify /\ [][ClassNext]_vars

DelayNext ==
    \/ CallFixedDelay /\ UNCHANGED <<doVars, classVars, cfgVars, concVars>>
    \/ CallExpBackoffWithJitter /\ UNCHANGED <<doVars, classVars, cfgVars, concVars>>

InitDelay == DelayInit /\ DoIdle /\ ClassIdle /\ CfgIdle /\ ConcIdle

SpecDelay == InitDelay /\ [][DelayNext]_vars

ConcNext ==
    \/ Next
    \/ Switch /\ UNCHANGED <<classVars, delayVars, cfgVars>>

InitConcurrent == ConcInit /\ ClassIdle /\ DelayIdle /\ CfgIdle

SpecConcurrent == InitConcurrent /\ [][ConcNext]_vars

ConfigNext ==
    \/ ApplyNextOption /\ UNCHANGED <<classVars, delayVars, concVars>>
    \/ NewRetryReturns /\ UNCHANGED <<classVars, delayVars, concVars>>

InitConfig == ConfigInit /\ ClassIdle /\ DelayIdle /\ ConcIdle

SpecConfig == InitConfig /\ [][ConfigNext]_vars

-----------------------------------------------------------------------------
(* Properties *)

Last(seq) == seq[Len(seq)]

Terminated == pc \in {"returned", "panic"}

RetryableFailure(r) == r.err /= Nil /\ isRetryable(r.err)

\* the error Do returns when every attempt failed
IsExhaustedError(err) ==
    /\ err /= Nil
    /\ Head(err).type \in {"wrapError", "errorString"}
    /\ Head(err).msg[1] = "all attempts failed, the last error: "

\* the error Do returns for an error that is not retryable
IsNonRetryableError(err) ==
    /\ err /= Nil
    /\ Head(err).type = "wrapError"
    /\ Head(err).msg[1] = "non-retryable error: "

\* how often the delay strategy has been called after k-1 delays
StrategyCalls(k) == IF rc.delayType = "nil" THEN 0 ELSE k - 1

\* C1: with attempts = n >= 1 and a context that is never cancelled, an
\* operation whose every invocation fails with a retryable error is invoked
\* exactly n times, and Do then returns nil and the "all attempts failed"
\* error that wraps the error of the n-th invocation.
C1_AlwaysFailingIsInvokedNTimes ==
    (/\ Terminated
     /\ rc.attempts >= 1
     /\ ~ctxDone
     /\ \A i \in 1..Len(opHist) : RetryableFailure(opHist[i]))
    => /\ pc = "returned"
       /\ calls = rc.attempts
       /\ Len(opHist) = rc.attempts
       /\ ret.data = 0
       /\ IsExhaustedError(ret.err)
       /\ Unwrap(ret.err) = opHist[rc.attempts].err

\* C2: when the k-th invocation succeeds, after retryable failures of the
\* invocations before it and with no cancellation, the operation has been
\* invoked exactly k times, k <= attempts, Do has returned that invocation's
\* resource and a nil error, and k-1 delays have been computed and slept: the
\* strategy has been called k-1 times (never, when rc.delayType is nil).
C2_SuccessOnAttemptK ==
    (/\ opHist /= << >>
     /\ Last(opHist).err = Nil
     /\ ~ctxDone)
    => LET k == Len(opHist)
       IN  /\ \A i \in 1..(k - 1) : RetryableFailure(opHist[i])
           /\ k <= rc.attempts
           /\ calls = k
           /\ pc = "returned"
           /\ ret = Returned(k, Nil)
           /\ Last(opHist).data = k
           /\ Len(slept) = k - 1
           /\ Len(delayArgs) = StrategyCalls(k)

C2_Witness ==
    /\ pc = "returned"
    /\ ~ctxDone
    /\ Len(opHist) = 2
    /\ Last(opHist).err = Nil
    /\ rc.attempts > 2
    /\ rc.delayType = "ExpBackoffWithJitter"

\* C3: when the k-th invocation returns an error e that is not retryable, Do
\* stops there whatever attempts remain: the operation has been invoked
\* exactly k times, k-1 delays have been computed and slept, and Do has
\* returned nil and the "non-retryable error" error that wraps e, never the
\* "all attempts failed" error.
C3_NonRetryableStops ==
    (/\ opHist /= << >>
     /\ Last(opHist).err /= Nil
     /\ ~isRetryable(Last(opHist).err))
    => LET k == Len(opHist)
           e == Last(opHist).err
       IN  /\ \A i \in 1..(k - 1) : RetryableFailure(opHist[i])
           /\ k <= rc.attempts
           /\ calls = k
           /\ pc = "returned"
           /\ ret.returned
           /\ ret.data = 0
           /\ IsNonRetryableError(ret.err)
           /\ ~IsExhaustedError(ret.err)
           /\ Unwrap(ret.err) = e
           /\ Len(slept) = k - 1
           /\ Len(delayArgs) = StrategyCalls(k)

C3_Witness ==
    /\ pc = "returned"
    /\ Len(opHist) = 2
    /\ ~isRetryable(Last(opHist).err)
    /\ rc.attempts = 2
    /\ IsNonRetryableError(ret.err)

\* C4: when the context is done before Do is called and attempts >= 1, the
\* operation is never invoked, no delay is computed or slept, and the only
\* step Do takes is to return nil and ctx.Err() itself.
C4_CancelledBeforeFirstAttempt ==
    (doneAt.pc = "before" /\ rc.attempts >= 1)
    => /\ calls = 0
       /\ opHist = << >>
       /\ delayArgs = << >>
       /\ slept = << >>
       /\ \/ pc = "loop" /\ attempt = 1 /\ ret = NotReturned
          \/ pc = "returned" /\ ret = Returned(0, ctxErr) /\ ctxErr \in CtxErrors

C4_Witness ==
    /\ doneAt.pc = "before"
    /\ rc.attempts >= 1
    /\ pc = "returned"
    /\ ret = Returned(0, ctxErr)

\* when the context is done during the sleep that follows the failure of
\* attempt k: the sleep completes, attempt k+1 invokes nothing, and Do returns
\* nil and ctx.Err() at the start of attempt k+1
C5_DoneDuringSleep ==
    doneAt.pc = "sleep"
    => LET k == doneAt.attempt
       IN  /\ k < rc.attempts
           /\ calls = k
           /\ Len(opHist) = k
           /\ \/ pc = "sleep" /\ attempt = k /\ Len(slept) = k - 1
              \/ pc = "loop" /\ attempt = k + 1 /\ Len(slept) = k /\ slept[k] = delay
              \/ /\ pc = "returned"
                 /\ ret = Returned(0, ctxErr)
                 /\ Len(slept) = k
                 /\ slept[k] = delay
                 /\ Last(log).args = <<k + 1, ctxErr>>

\* C5: the context is looked at at the start of an attempt and nowhere else.
\* When it is done during the sleep that follows the failure of attempt k,
\* the sleep still completes, no further invocation is made (k in all) and Do
\* returns nil and ctx.Err() at the start of attempt k+1; once the context is
\* done no invocation is ever started; and Do returns ctx.Err() from the top
\* of the loop only.
C5_CancellationPolledAtAttemptStart ==
    /\ []C5_DoneDuringSleep
    /\ [][ctxDone => calls' = calls]_vars
    /\ [][(ret'.returned /\ ~ret.returned /\ ret'.err \in CtxErrors)
            => (pc = "loop" /\ ctxDone /\ ret'.err = ctxErr)]_vars

C5_Witness ==
    /\ doneAt.pc = "sleep"
    /\ doneAt.attempt = 2
    /\ pc = "returned"
    /\ ret = Returned(0, ctxErr)
    /\ Len(slept) = 2

\* some error of the chain is a net.Error whose Timeout() is true
TimeoutAnywhere(err) ==
    \E i \in 1..Len(err) : ImplementsNetError(err[i]) /\ Timeout(err[i])

\* the first net.Error of the chain has a Timeout() that is true
FirstNetErrorTimesOut(err) ==
    \E i \in 1..Len(err) :
        /\ ImplementsNetError(err[i])
        /\ Timeout(err[i])
        /\ \A j \in 1..(i - 1) : ~ImplementsNetError(err[j])

\* the chain holds errNonRetryable
Marked(err) == \E i \in 1..Len(err) : err[i] = errNonRetryable

\* C6 as stated: an error with, anywhere in its chain, a timeout capability
\* that reports true is retryable, even if marked; else a marked error is
\* not retryable; else the error is retryable.
C6_TimeoutAnywhereThenMarker ==
    cout /= << >>
    => cout[1] = (IF TimeoutAnywhere(cerr) THEN TRUE ELSE ~Marked(cerr))

\* C6 as the code has it: an error is retryable when the first net.Error of
\* its chain reports a timeout, even if the chain is marked; else a marked
\* error is not retryable; else the error is retryable.
C6_FirstNetErrorThenMarker ==
    cout /= << >>
    => cout[1] = (IF FirstNetErrorTimesOut(cerr) THEN TRUE ELSE ~Marked(cerr))

C6_Witness ==
    /\ cout = <<TRUE>>
    /\ Marked(cerr)
    /\ FirstNetErrorTimesOut(cerr)
    /\ Len(cerr) = 3

\* C7: isRetryable(NonRetryable(e)) is false, unless e reports a timeout, and
\* then it is true.
C7_MarkThenClassify ==
    (corig /= Nil /\ cout /= << >>)
    => cout[1] = FirstNetErrorTimesOut(corig)

\* C8: the chain of NonRetryable(e) holds errNonRetryable and e itself.
C8_MarkKeepsCause ==
    corig /= Nil
    => /\ Marked(cerr)
       /\ \E i \in 1..Len(cerr) : SubSeq(cerr, i, Len(cerr)) = corig

\* C9: for both strategies, every attempt index >= 0, every baseDelay >= 0
\* and every maxDelay >= baseDelay, the duration returned is in 0..maxDelay.
C9_DelayWithinBounds ==
    (/\ dOut /= << >>
     /\ ~dOut[1].panic
     /\ dIn.maxDelay >= dIn.baseDelay)
    => (0 <= dOut[1].d /\ dOut[1].d <= dIn.maxDelay)

\* C10: when baseDelay * 2^attempt divided by 5 is zero, ExpBackoffWithJitter
\* does not fail: the jitter is zero and the strategy returns the smaller of
\* baseDelay * 2^attempt and maxDelay.
C10_ZeroWidthJitter ==
    (/\ dIn.strategy = "ExpBackoffWithJitter"
     /\ dOut /= << >>
     /\ (dIn.baseDelay * (2 ^ dIn.attempt)) \div 5 = 0)
    => LET exp == dIn.baseDelay * (2 ^ dIn.attempt)
       IN  /\ ~dOut[1].panic
           /\ dOut[1].d = (IF exp > dIn.maxDelay THEN dIn.maxDelay ELSE exp)

\* baseDelay * 2^attempt as a number, without the width of a duration
ExactExp == dIn.baseDelay * (2 ^ dIn.attempt)

\* C11: when baseDelay * 2^attempt is beyond the range of a duration (or the
\* shift itself wraps), ExpBackoffWithJitter saturates: it returns maxDelay,
\* not zero, a negative or a wrapped value, and it does not abort.
C11_SaturatesOnOverflow ==
    (/\ dIn.strategy = "ExpBackoffWithJitter"
     /\ dOut /= << >>
     /\ dIn.baseDelay > 0
     /\ dIn.maxDelay >= dIn.baseDelay
     /\ ExactExp > MaxDuration)
    => dOut[1] = Returns(dIn.maxDelay)

\* C12: when nothing overflows and exp/5 > 0, with exp = baseDelay * 2^attempt,
\* every delay d that ExpBackoffWithJitter returns has
\* min(exp, maxDelay) <= d <= min(exp + exp/5, maxDelay), and d < exp + exp/5
\* when it is not capped.
C12_JitterRange ==
    (/\ dIn.strategy = "ExpBackoffWithJitter"
     /\ dOut /= << >>
     /\ ExactExp \div 5 > 0
     /\ ExactExp + (ExactExp \div 5) - 1 <= MaxDuration)
    => LET exp == ExactExp
           top == exp + (exp \div 5)
           Min(a, b) == IF a < b THEN a ELSE b
           d == dOut[1].d
       IN  /\ ~dOut[1].panic
           /\ Min(exp, dIn.maxDelay) <= d
           /\ d <= Min(top, dIn.maxDelay)
           /\ d < top
           /\ (exp >= dIn.maxDelay) => (d = dIn.maxDelay)

\* baseDelay 5, maxDelay 15, attempt 2: 20 plus a jitter below 4, capped at 15
\* (the proportions of 100ms, 300ms, attempt 2)
C12_Witness ==
    /\ dIn = [strategy |-> "ExpBackoffWithJitter", attempt |-> 2, baseDelay |-> 5,
              maxDelay |-> 15]
    /\ dOut = <<Returns(15)>>

\* C13: FixedDelay returns baseDelay for every attempt index, whatever
\* maxDelay is, also when maxDelay < baseDelay.
C13_FixedDelayIsBaseDelay ==
    (dIn.strategy = "FixedDelay" /\ dOut /= << >>)
    => dOut = <<Returns(dIn.baseDelay)>>

C13_Witness ==
    /\ dIn.strategy = "FixedDelay"
    /\ dIn.attempt = 5
    /\ dIn.maxDelay = 3
    /\ dIn.baseDelay = 10
    /\ dOut = <<Returns(10)>>

\* C14: with a built-in delay strategy, whatever the configuration and the
\* operation do, Do never panics: it ends only by returning.
C14_DoNeverPanics ==
    (rc.delayType \in DelayTypes) => (pc /= "panic")

\* the invocations that failed with a retryable error and were not the last
\* attempt
NonFinalRetryable ==
    {i \in 1..Len(opHist) : RetryableFailure(opHist[i]) /\ i /= rc.attempts}

MsgCancelled == "Retry cancelled by context on attempt %d: %v"
MsgNonRetryable == "Non-retryable error on attempt %d: %v"
MsgExhausted == "All %d attempts failed. Last error: %v"
MsgRetrying == "Attempt %d failed: %v. Retrying in %v..."

\* how many messages of a format the logger has received
Logged(format) == Cardinality({i \in 1..Len(log) : log[i].format = format})

\* C18: a Cancelled, NonRetryableFailed or Exhausted return comes right after
\* exactly one message of its kind (with the attempt number of the poll, the
\* attempt number, the last error); a Succeeded return comes with no such
\* message; and every retryable failure of an attempt that is not the last
\* one has exactly one "Attempt %d failed ... Retrying in" message.
C18_FailuresAreLogged ==
    /\ (pc = "returned" /\ ret.err \in CtxErrors)
         => /\ Logged(MsgCancelled) = 1
            /\ Logged(MsgNonRetryable) + Logged(MsgExhausted) = 0
            /\ Last(log) = [format |-> MsgCancelled, args |-> <<attempt, ret.err>>]
            /\ attempt = Len(opHist) + 1
    /\ (pc = "returned" /\ IsNonRetryableError(ret.err))
         => /\ Logged(MsgNonRetryable) = 1
            /\ Logged(MsgCancelled) + Logged(MsgExhausted) = 0
            /\ Last(log) = [format |-> MsgNonRetryable,
                            args |-> <<Len(opHist), Last(opHist).err>>]
    /\ (pc = "returned" /\ IsExhaustedError(ret.err))
         => /\ Logged(MsgExhausted) = 1
            /\ Logged(MsgCancelled) + Logged(MsgNonRetryable) = 0
            /\ Last(log) = [format |-> MsgExhausted,
                            args |-> <<rc.attempts, Unwrap(ret.err)>>]
            /\ (opHist /= << >>) => (Unwrap(ret.err) = Last(opHist).err)
    /\ (pc = "returned" /\ ret.err = Nil)
         => Logged(MsgCancelled) + Logged(MsgNonRetryable) + Logged(MsgExhausted) = 0
    /\ \A a \in NonFinalRetryable :
         /\ Cardinality({i \in 1..Len(log) :
                            log[i].format = MsgRetrying /\ log[i].args[1] = a}) = 1
         /\ \E i \in 1..Len(log) :
              /\ log[i].format = MsgRetrying
              /\ log[i].args[1] = a
              /\ log[i].args[2] = opHist[a].err
              /\ log[i].args[3] = (IF a <= Len(slept) THEN slept[a] ELSE delay)

Max0(n) == IF n > 0 THEN n ELSE 0

\* how many of the four terminal states the returned values are
OutcomesOf(r) ==
    Cardinality({k \in {"Succeeded", "Cancelled", "NonRetryableFailed", "Exhausted"} :
        \/ k = "Succeeded" /\ r.err = Nil
        \/ k = "Cancelled" /\ r.err \in CtxErrors
        \/ k = "NonRetryableFailed" /\ IsNonRetryableError(r.err)
        \/ k = "Exhausted" /\ IsExhaustedError(r.err)})

\* C19: when every invocation of the operation and every delay returns, Do
\* ends in exactly one of Succeeded, Cancelled, NonRetryableFailed, Exhausted;
\* the attempt counter goes up by one from 1, the operation is invoked at most
\* attempts times, at most attempts - 1 delays are slept, and nothing happens
\* after the end.
C19_EndsInOneOfFour ==
    /\ [](/\ pc \in {"loop", "call", "sleep", "returned"}
          /\ attempt >= 1
          /\ calls <= Max0(rc.attempts)
          /\ Len(slept) <= Max0(rc.attempts - 1)
          /\ (pc = "returned") => (ret.returned /\ OutcomesOf(ret) = 1)
          /\ (pc /= "returned") => ~ret.returned)
    /\ [][/\ attempt' \in {attempt, attempt + 1}
          /\ pc /= "returned"]_vars

\* the cancellation was first raised after the poll of the last attempt
LateCancellation ==
    /\ rc.attempts >= 1
    /\ \/ doneAt.pc = "call" /\ doneAt.attempt = rc.attempts
       \/ doneAt.pc = "loop" /\ doneAt.attempt > rc.attempts

\* C20: a cancellation first raised after the poll of the last attempt is not
\* observed: the outcome is that of the last invocation, never Cancelled; and
\* a cancellation raised while an invocation is in flight does not keep that
\* invocation's success from being returned.
C20_LateCancellationUnseen ==
    /\ (pc = "returned" /\ LateCancellation)
         => /\ ret.err \notin CtxErrors
            /\ Logged(MsgCancelled) = 0
            /\ Len(opHist) = rc.attempts
            /\ (Last(opHist).err = Nil) => (ret = Returned(Last(opHist).data, Nil))
            /\ (Last(opHist).err /= Nil /\ ~isRetryable(Last(opHist).err))
                 => (IsNonRetryableError(ret.err) /\ Unwrap(ret.err) = Last(opHist).err)
            /\ RetryableFailure(Last(opHist))
                 => (IsExhaustedError(ret.err) /\ Unwrap(ret.err) = Last(opHist).err)
    /\ (/\ doneAt.pc = "call"
        /\ Len(opHist) >= doneAt.attempt
        /\ opHist[doneAt.attempt].err = Nil)
         => /\ pc = "returned"
            /\ ret = Returned(opHist[doneAt.attempt].data, Nil)

C20_Witness ==
    /\ pc = "returned"
    /\ rc.attempts = 2
    /\ doneAt = [pc |-> "call", attempt |-> 2]
    /\ ctxDone
    /\ IsExhaustedError(ret.err)

\* the place in opts of the last applied option made by the With... call
\* name, or 0 when no applied option was made by it
LastOpt(name) ==
    LET idx == {i \in 1..applied : opts[i].opt = name}
    IN  IF idx = {} THEN 0 ELSE CHOOSE i \in idx : \A j \in idx : j <= i

\* C16: NewRetry with no option gives attempts 3, base delay 100ms, maximum
\* delay 1s, FixedDelay and the silent logger; each option sets its own field
\* and no other; the options are applied in argument order, so the last
\* option of a field gives its value.
C16_DefaultsAndOptions ==
    (pc \in {"NewRetry", "built"})
    => /\ rc.attempts = (IF LastOpt("WithAttempts") = 0 THEN 3
                         ELSE opts[LastOpt("WithAttempts")].int)
       /\ rc.baseDelay = (IF LastOpt("WithDelay") = 0 THEN 100000000
                          ELSE opts[LastOpt("WithDelay")].int)
       /\ rc.maxDelay = (IF LastOpt("WithMaxDelay") = 0 THEN 1000000000
                         ELSE opts[LastOpt("WithMaxDelay")].int)
       /\ rc.delayType = (IF LastOpt("WithDelayType") = 0 THEN "FixedDelay"
                          ELSE opts[LastOpt("WithDelayType")].str)
       /\ rc.logger = (IF LastOpt("WithLogger") = 0 THEN "nopLogger"
                       ELSE opts[LastOpt("WithLogger")].str)
       /\ (pc = "built") => (applied = Len(opts))

C16_Witness ==
    /\ pc = "built"
    /\ opts = <<OptInt("WithMaxDelay", 20), OptInt("WithMaxDelay", 3)>>
    /\ rc = [attempts |-> 3, baseDelay |-> 100000000, maxDelay |-> 3,
             delayType |-> "FixedDelay", logger |-> "nopLogger"]

\* the call of Do of goroutine p
LocalOf(p) == IF p = cur THEN Regs ELSE others[p]

\* l is a state of a call of Do running alone on rc: its counters follow its
\* own invocations, and what it returned follows from the results of its own
\* retryFunc and its own ctx
AsAlone(l) ==
    LET k == Len(l.opHist)
        e == IF k = 0 THEN Nil ELSE l.opHist[k].err
    IN  /\ l.calls = k + (IF l.pc = "call" THEN 1 ELSE 0)
        /\ l.calls <= Max0(rc.attempts)
        /\ l.attempt \in {k, k + 1}
        /\ Len(l.slept) \in {l.attempt - 1, l.attempt - 2}
        /\ \A i \in 1..(k - 1) : RetryableFailure(l.opHist[i])
        /\ (l.pc = "returned")
             => \/ /\ k >= 1
                   /\ e = Nil
                   /\ l.ret = Returned(l.opHist[k].data, Nil)
                \/ /\ k >= 1
                   /\ e /= Nil
                   /\ ~isRetryable(e)
                   /\ IsNonRetryableError(l.ret.err)
                   /\ Unwrap(l.ret.err) = e
                \/ /\ k = 0 \/ RetryableFailure(l.opHist[k])
                   /\ k < rc.attempts
                   /\ l.ctxDone
                   /\ l.ret = Returned(0, l.ctxErr)
                \/ /\ k = 0 \/ RetryableFailure(l.opHist[k])
                   /\ k = Max0(rc.attempts)
                   /\ IsExhaustedError(l.ret.err)
                   /\ Unwrap(l.ret.err) = e
                   /\ l.lastErr = e

\* C15: calls of Do that run concurrently on one RetryConfig are independent:
\* no step of Do writes the RetryConfig, a step of one call leaves the attempt
\* counter, lastErr and every other local of the other calls as they are, and
\* every call invokes its operation and returns as it would alone.
C15_ConcurrentCallsIndependent ==
    /\ [][rc' = rc]_vars
    /\ [][\A p \in Procs : (cur' = cur /\ p /= cur) => (others'[p] = others[p])]_vars
    /\ [](\A p \in Procs : AsAlone(LocalOf(p)))

C15_Witness ==
    /\ LocalOf(1).pc = "returned"
    /\ IsExhaustedError(LocalOf(1).ret.err)
    /\ LocalOf(1).calls = 2
    /\ LocalOf(2).pc = "sleep"
    /\ LocalOf(2).attempt = 1
    /\ Len(log) = 3

\* C21: whenever Do returns the "all attempts failed" error, the operation
\* has been invoked at least once and the error wraps a non-nil error that
\* the operation returned, whatever the value of attempts is.
C21_ExhaustedHasCause ==
    (pc = "returned" /\ IsExhaustedError(ret.err))
    => /\ calls >= 1
       /\ opHist /= << >>
       /\ Unwrap(ret.err) /= Nil
       /\ Unwrap(ret.err) = Last(opHist).err

====
